---- MODULE Spec2Model ----
(***************************************************************************)
(* Model of the Resolver class of class-resolver                           *)
(* (src/example/libs/index.ts, lines 191-412: the version with fallback,   *)
(* priority, resolveAll and the three handleAll helpers).                  *)
(*                                                                         *)
(* The resolver keeps an array of handlers (updaters) and an optional      *)
(* fallback function (fallbackHandler).  Handlers are caller objects with  *)
(* a supports predicate, a handle method and an optional priority field.   *)
(***************************************************************************)
EXTENDS Integers, Sequences, FiniteSets, TLC

(***************************************************************************)
(* Bounds                                                                  *)
(***************************************************************************)
\* longest registered sequence explored
MaxUpdaters == 3

\* longest argument list passed to the constructor, set or setUpdaters
MaxArgs == 2

\* most calls in one fluent expression r.addUpdater(..).setFallbackHandler(..)
MaxChain == 3

(***************************************************************************)
(* The caller's world: handler objects, fallback functions, tokens, args   *)
(***************************************************************************)
\* the handler objects the caller owns; each has a supports predicate (the
\* set of tokens it accepts) and an optional numeric priority field
\* (hasPriority: the field is present and a number)
HandlerDef ==
  [ A |-> [supports |-> {"x", "y"}, hasPriority |-> FALSE, priority |-> 0],
    B |-> [supports |-> {"x", "y"}, hasPriority |-> TRUE,  priority |-> 1],
    C |-> [supports |-> {"x"},      hasPriority |-> TRUE,  priority |-> 1],
    D |-> [supports |-> {"y"},      hasPriority |-> TRUE,  priority |-> -1],
    E |-> [supports |-> {"x"},      hasPriority |-> FALSE, priority |-> 0] ]

Handlers == DOMAIN HandlerDef

\* tokens passed as `type`; "z" is supported by no handler
Types == {"x", "y", "z"}

\* fallback functions the caller may install
Fallbacks == {"F", "G"}

\* fallbackHandler is undefined
NoFallback == "undefined"

\* argument lists passed as ...args
ArgLists == {"args1", "args2"}

\* updater.supports(type)
supports(h, type) == type \in HandlerDef[h].supports

(***************************************************************************)
(* Values handed back to the caller                                        *)
(***************************************************************************)
\* a registered handler object, returned by reference
Registered(h) == [kind |-> "handler", ref |-> h]

\* the temporary object { supports: () => true, handle: this.fallbackHandler }
Wrapper(f) == [kind |-> "wrapper", ref |-> f]

\* no target (the call threw)
NoTarget == [kind |-> "none", ref |-> "none"]

\* target.supports(type) of a value handed back by resolve / resolveAll
targetSupports(target, type) ==
  IF target.kind = "wrapper" THEN TRUE ELSE supports(target.ref, type)

\* the value target.handle(...args) produces: the handler's (or the fallback
\* function's) own result for these arguments
Result(target, args) == [by |-> target.ref, args |-> args]

\* the error a failing target.handle(...args) raises: the handler's own
ErrorOf(target) == [kind |-> "HandlerError", by |-> target.ref]

\* new Error('Unassigned resolve target.')
UnassignedTarget == [kind |-> "UnassignedTarget", by |-> "resolver"]

\* new Error(`Unsupported type: ${typeString}`)
UnsupportedType == [kind |-> "UnsupportedType", by |-> "resolver"]

NoError == [kind |-> "none", by |-> "none"]

(***************************************************************************)
(* Tokens as values, and how the error message renders them                *)
(***************************************************************************)
\* a token value: kind is the sort of value, text the characters of a
\* string, num the number (or 1 / 0 for true / false), items the elements
\* of an array or the key-value pairs of an object, in property order
Tok(kind, text, num, items) ==
  [kind |-> kind, text |-> text, num |-> num, items |-> items]

StringToken(str)   == Tok("string", str, 0, << >>)
NumberToken(n)     == Tok("number", "", n, << >>)
BooleanToken(b)    == Tok("boolean", "", IF b THEN 1 ELSE 0, << >>)
NullToken          == Tok("null", "", 0, << >>)
UndefinedToken     == Tok("undefined", "", 0, << >>)
ArrayToken(vals)   ==
  Tok("array", "", 0, [i \in 1..Len(vals) |-> [key |-> "", val |-> vals[i]]])
ObjectToken(pairs) == Tok("object", "", 0, pairs)

\* no token: the call takes none
NoToken == Tok("none", "", 0, << >>)

\* the structured tokens resolve is called with
Tokens ==
  { StringToken("z"),
    StringToken("x"),
    NumberToken(42),
    NumberToken(0),
    NumberToken(-7),
    BooleanToken(TRUE),
    NullToken,
    UndefinedToken,
    ArrayToken(<< >>),
    ArrayToken(<< NumberToken(1), NumberToken(2) >>),
    ArrayToken(<< StringToken("a"), NullToken, UndefinedToken >>),
    ObjectToken(<< >>),
    ObjectToken(<< [key |-> "type", val |-> StringToken("z")],
                   [key |-> "amount", val |-> NumberToken(0)] >>),
    ObjectToken(<< [key |-> "type", val |-> StringToken("x")] >>),
    ObjectToken(<< [key |-> "id", val |-> StringToken("e")],
                   [key |-> "skipped", val |-> UndefinedToken],
                   [key |-> "data",
                    val |-> ObjectToken(<< [key |-> "amount",
                                            val |-> NumberToken(10)] >>)] >>) }

\* what the handlers' supports predicates look at: the token itself when it
\* is a string, its `type` property when it is an object (event.type)
tokenType(t) ==
  IF t.kind = "string" THEN t.text
  ELSE IF t.kind = "object"
            /\ \E i \in 1..Len(t.items) :
                 t.items[i].key = "type" /\ t.items[i].val.kind = "string"
       THEN t.items[CHOOSE i \in 1..Len(t.items) :
                      t.items[i].key = "type"
                        /\ t.items[i].val.kind = "string"].val.text
       ELSE "none"

\* the decimal digits
Digits == << "0", "1", "2", "3", "4", "5", "6", "7", "8", "9" >>

\* Number.prototype.toString for a non-negative integer
RECURSIVE NatToString(_)
NatToString(n) ==
  IF n < 10 THEN Digits[n + 1]
  ELSE NatToString(n \div 10) \o Digits[(n % 10) + 1]

\* Number.prototype.toString for an integer
NumberToString(n) == IF n < 0 THEN "-" \o NatToString(0 - n) ELSE NatToString(n)

\* Array.prototype.join
RECURSIVE Join(_, _)
Join(strs, sep) ==
  IF strs = << >> THEN ""
  ELSE IF Len(strs) = 1 THEN strs[1]
       ELSE strs[1] \o sep \o Join(Tail(strs), sep)

\* typeof t
typeOf(t) ==
  IF t.kind \in {"null", "array", "object"} THEN "object" ELSE t.kind

\* String(t)
RECURSIVE String(_)
String(t) ==
  CASE t.kind = "string"    -> t.text
    [] t.kind = "number"    -> NumberToString(t.num)
    [] t.kind = "boolean"   -> IF t.num = 1 THEN "true" ELSE "false"
    [] t.kind = "null"      -> "null"
    [] t.kind = "undefined" -> "undefined"
    [] t.kind = "array"     ->
         Join([i \in 1..Len(t.items) |->
                 IF t.items[i].val.kind \in {"null", "undefined"} THEN ""
                 ELSE String(t.items[i].val)], ",")
    [] t.kind = "object"    -> "[object Object]"

\* JSON.stringify(t), for a value that has a JSON text
RECURSIVE JSONstringify(_)
JSONstringify(t) ==
  CASE t.kind = "string"    -> "\"" \o t.text \o "\""
    [] t.kind = "number"    -> NumberToString(t.num)
    [] t.kind = "boolean"   -> IF t.num = 1 THEN "true" ELSE "false"
    [] t.kind = "null"      -> "null"
    [] t.kind = "array"     ->
         "[" \o Join([i \in 1..Len(t.items) |->
                        IF t.items[i].val.kind = "undefined" THEN "null"
                        ELSE JSONstringify(t.items[i].val)], ",") \o "]"
    [] t.kind = "object"    ->
         LET Kept(p) == p.val.kind # "undefined"
             kept    == SelectSeq(t.items, Kept)
         IN  "{" \o Join([i \in 1..Len(kept) |->
                            "\"" \o kept[i].key \o "\":"
                              \o JSONstringify(kept[i].val)], ",") \o "}"

\* variant: the token is put into the message as it is, `${type}`
typeString_plain(t) == String(t)

\* typeof type === 'object' && type !== null
\*    ? JSON.stringify(type) : String(type)
typeString(t) ==
  IF typeOf(t) = "object" /\ t.kind # "null"
  THEN JSONstringify(t)
  ELSE String(t)

\* `Unsupported type: ${typeString}`
UnsupportedMessage(t) == "Unsupported type: " \o typeString(t)

(***************************************************************************)
(* Pure helpers of the class                                               *)
(***************************************************************************)
\* variant: a handler without priority sorts below every number
getPriority_absentLowest(h) ==
  IF HandlerDef[h].hasPriority THEN HandlerDef[h].priority ELSE -100

\* 'priority' in handler && typeof handler.priority === 'number'
\*    ? handler.priority : 0
getPriority(h) ==
  IF HandlerDef[h].hasPriority THEN HandlerDef[h].priority ELSE 0

\* the comparator (a, b) => priorityB - priorityA
comparePriority(a, b) == getPriority(b) - getPriority(a)

\* variant: an unstable sort, equal elements change places
RECURSIVE insertSorted_unstable(_, _)
insertSorted_unstable(sorted, h) ==
  IF sorted = << >> THEN << h >>
  ELSE IF comparePriority(h, Head(sorted)) <= 0
       THEN << h >> \o sorted
       ELSE << Head(sorted) >> \o insertSorted_unstable(Tail(sorted), h)

\* one step of the stable sort: h, which came after every element of
\* sorted in the input, goes before the first element the comparator
\* orders strictly after it
RECURSIVE insertSorted(_, _)
insertSorted(sorted, h) ==
  IF sorted = << >> THEN << h >>
  ELSE IF comparePriority(h, Head(sorted)) < 0
       THEN << h >> \o sorted
       ELSE << Head(sorted) >> \o insertSorted(Tail(sorted), h)

\* [...handlers].sort(comparator): Array.prototype.sort is stable
RECURSIVE sortByPriority(_)
sortByPriority(handlers) ==
  IF handlers = << >> THEN << >>
  ELSE insertSorted(sortByPriority(SubSeq(handlers, 1, Len(handlers) - 1)),
                    handlers[Len(handlers)])

\* variant: find instead of filter, only the first supporting handler
RECURSIVE filterSupports_find(_, _)
filterSupports_find(us, type) ==
  IF us = << >> THEN << >>
  ELSE IF supports(Head(us), type)
       THEN << Head(us) >>
       ELSE filterSupports_find(Tail(us), type)

\* this.updaters.filter(updater => updater.supports(type))
RECURSIVE filterSupports(_, _)
filterSupports(us, type) ==
  IF us = << >> THEN << >>
  ELSE IF supports(Head(us), type)
       THEN << Head(us) >> \o filterSupports(Tail(us), type)
       ELSE filterSupports(Tail(us), type)

\* [...args]
getArgs(args) == [i \in 1..Len(args) |-> args[i]]

\* targets as handed back: every element a registered handler object
asTargets(hs) == [i \in 1..Len(hs) |-> Registered(hs[i])]

(***************************************************************************)
(* resolve and resolveAll, as functions of the registry                    *)
(***************************************************************************)
\* variant: this.updaters.find(updater => updater.supports(type)), the
\* first supporting handler in registration order
resolve_find(us, fb, type) ==
  IF Len(us) < 1
  THEN [error |-> UnassignedTarget, target |-> NoTarget]
  ELSE LET found == filterSupports_find(us, type)
       IN  IF found = << >>
           THEN IF fb # NoFallback
                THEN [error |-> NoError, target |-> Wrapper(fb)]
                ELSE [error |-> UnsupportedType, target |-> NoTarget]
           ELSE [error |-> NoError, target |-> Registered(found[1])]

\* variant: no check of an absent target, undefined is returned
resolve_unchecked(us, fb, type) ==
  IF Len(us) < 1
  THEN [error |-> UnassignedTarget, target |-> NoTarget]
  ELSE LET sortedHandlers == sortByPriority(filterSupports(us, type))
       IN  IF sortedHandlers = << >>
           THEN IF fb # NoFallback
                THEN [error |-> NoError, target |-> Wrapper(fb)]
                ELSE [error |-> NoError, target |-> NoTarget]
           ELSE [error |-> NoError, target |-> Registered(sortedHandlers[1])]

\* variant: the class before the fallback was added
resolve_noFallback(us, fb, type) ==
  IF Len(us) < 1
  THEN [error |-> UnassignedTarget, target |-> NoTarget]
  ELSE LET sortedHandlers == sortByPriority(filterSupports(us, type))
       IN  IF sortedHandlers = << >>
           THEN [error |-> UnsupportedType, target |-> NoTarget]
           ELSE [error |-> NoError, target |-> Registered(sortedHandlers[1])]

\* Resolver.resolve(type)
resolve(us, fb, type) ==
  IF Len(us) < 1
  THEN [error |-> UnassignedTarget, target |-> NoTarget]
  ELSE LET matchingHandlers == filterSupports(us, type)
           sortedHandlers   == sortByPriority(matchingHandlers)
       IN  IF sortedHandlers = << >>
           THEN IF fb # NoFallback
                THEN [error |-> NoError, target |-> Wrapper(fb)]
                ELSE [error |-> UnsupportedType, target |-> NoTarget]
           ELSE [error |-> NoError, target |-> Registered(sortedHandlers[1])]

\* variant: the fallback exempts the empty registry from the length check
resolveAll_fallbackFirst(us, fb, type) ==
  LET targets == filterSupports(us, type)
  IN  IF Len(targets) = 0
      THEN IF fb # NoFallback
           THEN [error |-> NoError, targets |-> << Wrapper(fb) >>]
           ELSE IF Len(us) < 1
                THEN [error |-> UnassignedTarget, targets |-> << >>]
                ELSE [error |-> NoError, targets |-> << >>]
      ELSE [error |-> NoError,
            targets |-> asTargets(sortByPriority(targets))]

\* variant: no match and no fallback throws, as resolve does
resolveAll_throwsUnsupported(us, fb, type) ==
  IF Len(us) < 1
  THEN [error |-> UnassignedTarget, targets |-> << >>]
  ELSE LET targets == filterSupports(us, type)
       IN  IF Len(targets) = 0
           THEN IF fb # NoFallback
                THEN [error |-> NoError, targets |-> << Wrapper(fb) >>]
                ELSE [error |-> UnsupportedType, targets |-> << >>]
           ELSE [error |-> NoError,
                 targets |-> asTargets(sortByPriority(targets))]

\* variant: the fallback is not consulted
resolveAll_noFallback(us, fb, type) ==
  IF Len(us) < 1
  THEN [error |-> UnassignedTarget, targets |-> << >>]
  ELSE [error |-> NoError,
        targets |-> asTargets(sortByPriority(filterSupports(us, type)))]

\* variant: an installed fallback always runs last
resolveAll_fallbackAlways(us, fb, type) ==
  IF Len(us) < 1
  THEN [error |-> UnassignedTarget, targets |-> << >>]
  ELSE LET targets == asTargets(sortByPriority(filterSupports(us, type)))
       IN  IF fb # NoFallback
           THEN [error |-> NoError, targets |-> Append(targets, Wrapper(fb))]
           ELSE [error |-> NoError, targets |-> targets]

\* Resolver.resolveAll(type)
resolveAll(us, fb, type) ==
  IF Len(us) < 1
  THEN [error |-> UnassignedTarget, targets |-> << >>]
  ELSE LET targets == filterSupports(us, type)
       IN  IF Len(targets) = 0
           THEN IF fb # NoFallback
                THEN [error |-> NoError, targets |-> << Wrapper(fb) >>]
                ELSE [error |-> NoError, targets |-> << >>]
           ELSE [error |-> NoError,
                 targets |-> asTargets(sortByPriority(targets))]

\* the call updater.supports(type), as it appears in a trace
SupportsEvent(h) == [ev |-> "supports", target |-> Registered(h)]

\* the call target.handle(...args), as it appears in a trace
HandleEvent(target) == [ev |-> "handle", target |-> target]

\* variant: every handler is run as soon as it has been asked
filterEvents_handlesAsItGoes(us, type) ==
  [i \in 1..(2 * Len(us)) |->
     IF i % 2 = 1 THEN SupportsEvent(us[(i + 1) \div 2])
     ELSE HandleEvent(Registered(us[i \div 2]))]

\* the calls made by this.updaters.filter(updater => updater.supports(type)):
\* supports of every registered handler, in registration order
filterEvents(us, type) == [i \in 1..Len(us) |-> SupportsEvent(us[i])]

\* the calls made by running the invocations of a log
handleEvents(log) == [i \in 1..Len(log) |-> HandleEvent(log[i].target)]

\* variant: the registered array itself is sorted, as this.updaters.sort(...)
updatersAfterResolving_sortsInPlace(us) == sortByPriority(us)

\* this.updaters after resolve or resolveAll has run: filter builds a new
\* array and sortByPriority sorts a copy of that ([...handlers]), so the
\* registered array keeps its elements where they were
updatersAfterResolving(us) == us

(***************************************************************************)
(* State                                                                   *)
(***************************************************************************)
VARIABLES
  heap,            \* the arrays: "own" is an array only the resolver holds,
                   \* "L" is the array the caller passed to set and still holds
  updatersRef,     \* which array this.updaters refers to
  fallbackHandler, \* this.fallbackHandler
  last,            \* the most recent completed synchronous call and what it
                   \* handed back to the caller
  call             \* the asynchronous call in flight, if any

vars == << heap, updatersRef, fallbackHandler, last, call >>

\* this.updaters
updaters == heap[updatersRef]

\* sequences of handlers of length at most n
RECURSIVE SeqsUpTo(_)
SeqsUpTo(n) ==
  IF n = 0 THEN { << >> }
  ELSE LET shorter == SeqsUpTo(n - 1)
       IN  shorter \cup { Append(s, h) : s \in { t \in shorter : Len(t) = n - 1 },
                                         h \in Handlers }

\* the handler lists the caller passes to the constructor, set and setUpdaters:
\* up to MaxArgs different handlers
Lists ==
  { s \in SeqsUpTo(MaxArgs) : \A i, j \in 1..Len(s) : s[i] = s[j] => i = j }

\* a call record with nothing handed back
Blank(op) ==
  [ op          |-> op,
    type        |-> "none",
    args        |-> "none",
    status      |-> "returned",
    target      |-> NoTarget,
    targets     |-> << >>,
    results     |-> << >>,
    error       |-> NoError,
    log         |-> << >>,
    returnsThis |-> FALSE,
    calls       |-> << >>,
    token       |-> NoToken,
    message     |-> "",
    trace       |-> << >> ]

\* a registration call and the argument the caller gave it
Call(op, given) == [op |-> op, given |-> given]

\* no asynchronous call in flight
Idle ==
  [ kind        |-> "idle",
    type        |-> "none",
    args        |-> "none",
    targets     |-> << >>,
    inv         |-> << >>,
    log         |-> << >>,
    done        |-> << >>,
    results     |-> << >>,
    promise     |-> "none",
    value       |-> << >>,
    error       |-> NoError,
    trace       |-> << >> ]

\* constructor(...args): the rest array becomes this.updaters when non-empty
Init ==
  /\ \E args \in Lists :
       heap = [own |-> IF Len(args) > 0 THEN args ELSE << >>, L |-> << >>]
  /\ updatersRef = "own"
  /\ fallbackHandler = NoFallback
  /\ last = Blank("constructor")
  /\ call = Idle

\* the caller is free to make its next call: it has taken what the previous
\* call handed back, and no asynchronous call is in flight
Ready == last.op = "none" /\ call.kind = "idle"

\* the caller takes what the call handed back and goes on
Continue ==
  /\ last.op # "none"
  /\ last' = Blank("none")
  /\ UNCHANGED << heap, updatersRef, fallbackHandler, call >>

(***************************************************************************)
(* Registration                                                            *)
(***************************************************************************)
\* variant: the given handlers are added to the handlers registered before
Set_concat(list) ==
  /\ Ready
  /\ Len(updaters) + Len(list) <= MaxUpdaters
  /\ heap' = [own |-> << >>, L |-> updaters \o list]
  /\ updatersRef' = "L"
  /\ last' = [Blank("set") EXCEPT !.calls = << Call("set", list) >>]
  /\ UNCHANGED << fallbackHandler, call >>

\* set(updaters): this.updaters = updaters, the caller's own array
set(list) ==
  /\ heap' = [own |-> << >>, L |-> list]
  /\ updatersRef' = "L"
  /\ last' = [Blank("set") EXCEPT !.calls = << Call("set", list) >>]
  /\ UNCHANGED << fallbackHandler, call >>

\* resolver.set(updaters) as a statement of its own
Set(list) ==
  /\ Ready
  /\ set(list)

\* variant: the given handlers are appended to the registered ones
SetUpdaters_append(args) ==
  /\ Ready
  /\ Len(updaters) + Len(args) <= MaxUpdaters
  /\ heap' = [own |-> updaters \o getArgs(args), L |-> << >>]
  /\ updatersRef' = "own"
  /\ last' = [Blank("setUpdaters") EXCEPT
                !.calls = << Call("setUpdaters", args) >>]
  /\ UNCHANGED << fallbackHandler, call >>

\* setUpdaters(...args): this.set(this.getArgs(args))
setUpdaters(args) ==
  /\ heap' = [own |-> getArgs(args), L |-> << >>]
  /\ updatersRef' = "own"
  /\ last' = [Blank("setUpdaters") EXCEPT
                !.calls = << Call("setUpdaters", args) >>]
  /\ UNCHANGED << fallbackHandler, call >>

\* resolver.setUpdaters(...args) as a statement of its own
SetUpdaters(args) ==
  /\ Ready
  /\ setUpdaters(args)

\* variant: unshift instead of push
addUpdater_unshift(h) ==
  /\ Len(updaters) < MaxUpdaters
  /\ heap' = [heap EXCEPT ![updatersRef] = << h >> \o @]
  /\ last' = [Blank("addUpdater") EXCEPT
                !.returnsThis = TRUE,
                !.calls = Append(last.calls, Call("addUpdater", h))]
  /\ UNCHANGED << updatersRef, fallbackHandler, call >>

\* addUpdater(updater): this.updaters.push(updater); return this
addUpdater(h) ==
  /\ Len(updaters) < MaxUpdaters
  /\ heap' = [heap EXCEPT ![updatersRef] = Append(@, h)]
  /\ last' = [Blank("addUpdater") EXCEPT
                !.returnsThis = TRUE,
                !.calls = Append(last.calls, Call("addUpdater", h))]
  /\ UNCHANGED << updatersRef, fallbackHandler, call >>

\* resolver.addUpdater(updater) as a statement of its own
AddUpdater(h) ==
  /\ Ready
  /\ addUpdater(h)

\* variant: this.fallbackHandler ??= handler, an installed fallback stays
setFallbackHandler_keepFirst(f) ==
  /\ fallbackHandler' = IF fallbackHandler = NoFallback THEN f
                        ELSE fallbackHandler
  /\ last' = [Blank("setFallbackHandler") EXCEPT
                !.returnsThis = TRUE,
                !.calls = Append(last.calls, Call("setFallbackHandler", f))]
  /\ UNCHANGED << heap, updatersRef, call >>

\* setFallbackHandler(handler): this.fallbackHandler = handler; return this
setFallbackHandler(f) ==
  /\ fallbackHandler' = f
  /\ last' = [Blank("setFallbackHandler") EXCEPT
                !.returnsThis = TRUE,
                !.calls = Append(last.calls, Call("setFallbackHandler", f))]
  /\ UNCHANGED << heap, updatersRef, call >>

\* resolver.setFallbackHandler(handler) as a statement of its own
SetFallbackHandler(f) ==
  /\ Ready
  /\ setFallbackHandler(f)

\* the previous call of the expression returned `this`, and the caller calls
\* the next method on what it returned
Chaining ==
  /\ call.kind = "idle"
  /\ last.returnsThis
  /\ Len(last.calls) < MaxChain

\* ....addUpdater(updater), on the resolver the previous call returned
ThenAddUpdater(h) ==
  /\ Chaining
  /\ addUpdater(h)

\* ....setFallbackHandler(handler), on the resolver the previous call returned
ThenSetFallbackHandler(f) ==
  /\ Chaining
  /\ setFallbackHandler(f)

\* an asynchronous call is suspended at an await and the caller, which has
\* taken what its previous call handed back, is free to make a call
Suspended ==
  /\ call.kind # "idle"
  /\ call.promise = "pending"
  /\ last.op = "none"

\* the caller goes on once no asynchronous call is in flight
ContinueIdle ==
  /\ call.kind = "idle"
  /\ Continue

\* resolver.addUpdater(updater) while an asynchronous call is suspended
MeanwhileAddUpdater(h) ==
  /\ Suspended
  /\ addUpdater(h)

\* resolver.setFallbackHandler(handler) while an asynchronous call is
\* suspended
MeanwhileSetFallbackHandler(f) ==
  /\ Suspended
  /\ setFallbackHandler(f)

\* resolver.set(updaters) while an asynchronous call is suspended
MeanwhileSet(list) ==
  /\ Suspended
  /\ set(list)

\* resolver.setUpdaters(...args) while an asynchronous call is suspended
MeanwhileSetUpdaters(args) ==
  /\ Suspended
  /\ setUpdaters(args)

\* the caller pushes onto the array it passed to set
CallerPush(h) ==
  /\ Ready
  /\ updatersRef = "L"
  /\ Len(heap["L"]) < MaxUpdaters
  /\ heap' = [heap EXCEPT !["L"] = Append(@, h)]
  /\ last' = [Blank("callerPush") EXCEPT !.calls = << Call("callerPush", h) >>]
  /\ UNCHANGED << updatersRef, fallbackHandler, call >>

(***************************************************************************)
(* Synchronous resolution and execution                                    *)
(***************************************************************************)
\* "returned" or "threw", from the error of a call
StatusOf(error) == IF error = NoError THEN "returned" ELSE "threw"

\* a call of resolve(t): what it hands back, and nothing else changes
ResolvingToken(t) ==
  /\ LET r == resolve(updaters, fallbackHandler, tokenType(t))
     IN  last' = [Blank("resolve") EXCEPT
                    !.type = tokenType(t),
                    !.token = t,
                    !.status = StatusOf(r.error),
                    !.error = r.error,
                    !.message = IF r.error = UnsupportedType
                                THEN UnsupportedMessage(t)
                                ELSE IF r.error = UnassignedTarget
                                     THEN "Unassigned resolve target."
                                     ELSE "",
                    !.target = r.target,
                    !.trace = filterEvents(updaters, tokenType(t)),
                    !.calls = last.calls]
  /\ heap' = [heap EXCEPT ![updatersRef] = updatersAfterResolving(@)]
  /\ UNCHANGED << updatersRef, fallbackHandler, call >>

\* a call of resolve(type) with a string token
Resolving(type) == ResolvingToken(StringToken(type))

\* resolver.resolve(t) with any token, as a statement of its own
ResolveToken(t) ==
  /\ Ready
  /\ ResolvingToken(t)

\* resolver.resolve(type) as a statement of its own
Resolve(type) ==
  /\ Ready
  /\ Resolving(type)

\* ....resolve(type), on the resolver the previous call returned
ThenResolve(type) ==
  /\ Chaining
  /\ Resolving(type)

\* a call of resolveAll(type): what it hands back, and nothing else changes
ResolvingAll(type) ==
  /\ LET r == resolveAll(updaters, fallbackHandler, type)
     IN  last' = [Blank("resolveAll") EXCEPT !.type = type,
                                             !.status = StatusOf(r.error),
                                             !.error = r.error,
                                             !.targets = r.targets,
                                             !.trace =
                                               filterEvents(updaters, type),
                                             !.calls = last.calls]
  /\ heap' = [heap EXCEPT ![updatersRef] = updatersAfterResolving(@)]
  /\ UNCHANGED << updatersRef, fallbackHandler, call >>

\* resolver.resolveAll(type) as a statement of its own
ResolveAll(type) ==
  /\ Ready
  /\ ResolvingAll(type)

\* ....resolveAll(type), on the resolver the previous call returned
ThenResolveAll(type) ==
  /\ Chaining
  /\ ResolvingAll(type)

\* the invocation target.handle(...args), as it appears in a log
Invocation(target, args) == [target |-> target, args |-> args]

\* variant: the wrapper reads this.fallbackHandler when it is invoked
mapHandle_lateBound(targets, args, threw) ==
  LET n   == IF threw = 0 THEN Len(targets) ELSE threw
      now == [i \in 1..Len(targets) |->
                IF targets[i].kind = "wrapper" THEN Wrapper(fallbackHandler)
                ELSE targets[i]]
  IN  [ log     |-> [i \in 1..n |-> Invocation(now[i], args)],
        error   |-> IF threw = 0 THEN NoError ELSE ErrorOf(now[threw]),
        results |-> IF threw = 0
                    THEN [i \in 1..Len(targets) |-> Result(now[i], args)]
                    ELSE << >> ]

\* variant: a throw is kept until every target has been invoked
mapHandle_runsAll(targets, args, threw) ==
  [ log     |-> [i \in 1..Len(targets) |-> Invocation(targets[i], args)],
    error   |-> IF threw = 0 THEN NoError ELSE ErrorOf(targets[threw]),
    results |-> IF threw = 0
                THEN [i \in 1..Len(targets) |-> Result(targets[i], args)]
                ELSE << >> ]

\* variant: the targets are visited from the last to the first
mapHandle_reverse(targets, args, threw) ==
  LET n   == Len(targets)
      rev == [i \in 1..n |-> targets[n + 1 - i]]
      m   == IF threw = 0 THEN n ELSE threw
  IN  [ log     |-> [i \in 1..m |-> [target |-> rev[i], args |-> args]],
        error   |-> IF threw = 0 THEN NoError ELSE ErrorOf(rev[threw]),
        results |-> IF threw = 0
                    THEN [i \in 1..n |-> Result(rev[i], args)]
                    ELSE << >> ]

\* targets.map(target => target.handle(...args)): invokes the targets in
\* array order; threw is the index of the first invocation that throws
\* (0: none throws); a throw ends the map and nothing is returned
mapHandle(targets, args, threw) ==
  LET n == IF threw = 0 THEN Len(targets) ELSE threw
  IN  [ log     |-> [i \in 1..n |-> Invocation(targets[i], args)],
        error   |-> IF threw = 0 THEN NoError ELSE ErrorOf(targets[threw]),
        results |-> IF threw = 0
                    THEN [i \in 1..Len(targets) |-> Result(targets[i], args)]
                    ELSE << >> ]

\* resolver.resolve(type).handle(...args): the caller invokes the target
\* resolve handed back; handle returns or throws as the handler pleases
Handle(args) ==
  /\ call.kind = "idle"
  /\ last.op = "resolve"
  /\ last.status = "returned"
  /\ \E threw \in 0..1 :
       LET m == mapHandle(<< last.target >>, args, threw)
       IN  last' = [last EXCEPT !.op = "handle",
                                !.args = args,
                                !.log = m.log,
                                !.trace = @ \o handleEvents(m.log),
                                !.status = StatusOf(m.error),
                                !.error = m.error,
                                !.results = m.results]
  /\ UNCHANGED << heap, updatersRef, fallbackHandler, call >>

\* the caller holds what resolve or resolveAll handed back
Holding ==
  /\ call.kind = "idle"
  /\ last.op \in {"resolve", "resolveAll"}
  /\ last.status = "returned"

\* resolver.setFallbackHandler(handler) by a caller that keeps the target or
\* the targets it holds
HoldingSetFallbackHandler(f) ==
  /\ Holding
  /\ Len(last.calls) < MaxChain
  /\ fallbackHandler' = f
  /\ last' = [last EXCEPT !.calls = Append(@, Call("setFallbackHandler", f))]
  /\ UNCHANGED << heap, updatersRef, call >>

\* handlers[0].handle(...args) on what resolveAll handed back
HandleFirst(args) ==
  /\ Holding
  /\ last.op = "resolveAll"
  /\ Len(last.targets) > 0
  /\ \E threw \in 0..1 :
       LET m == mapHandle(<< last.targets[1] >>, args, threw)
       IN  last' = [last EXCEPT !.op = "handle",
                                !.args = args,
                                !.target = last.targets[1],
                                !.log = m.log,
                                !.trace = @ \o handleEvents(m.log),
                                !.status = StatusOf(m.error),
                                !.error = m.error,
                                !.results = m.results]
  /\ UNCHANGED << heap, updatersRef, fallbackHandler, call >>

\* resolver.handleAll(type, ...args); each handle returns or throws as the
\* handler pleases
HandleAll(type, args) ==
  /\ Ready
  /\ LET r == resolveAll(updaters, fallbackHandler, type)
     IN  IF r.error # NoError
         THEN last' = [Blank("handleAll") EXCEPT !.type = type,
                                                 !.args = args,
                                                 !.status = "threw",
                                                 !.error = r.error]
         ELSE \E threw \in 0..Len(r.targets) :
                LET m == mapHandle(r.targets, args, threw)
                IN  last' = [Blank("handleAll") EXCEPT
                               !.type = type,
                               !.args = args,
                               !.targets = r.targets,
                               !.log = m.log,
                               !.trace = filterEvents(updaters, type)
                                           \o handleEvents(m.log),
                               !.status = StatusOf(m.error),
                               !.error = m.error,
                               !.results = m.results]
  /\ heap' = [heap EXCEPT ![updatersRef] = updatersAfterResolving(@)]
  /\ UNCHANGED << updatersRef, fallbackHandler, call >>

(***************************************************************************)
(* Asynchronous execution                                                  *)
(*                                                                         *)
(* call.inv[i] is the state of the invocation of call.targets[i]:          *)
(*   "unstarted"  handle was not called                                    *)
(*   "threw"      handle threw synchronously                               *)
(*   "pending"    handle returned a promise that is not settled yet        *)
(*   "fulfilled"  handle returned a value, or its promise was fulfilled    *)
(*   "rejected"   its promise was rejected                                 *)
(* call.done lists the invocations of handleAllAsync whose promise has     *)
(* settled, in the order they settled.                                     *)
(* call.promise is the state of the promise the helper returned.           *)
(***************************************************************************)
\* the values of all targets, by index
AllResults(targets, args) ==
  [i \in 1..Len(targets) |-> Result(targets[i], args)]

\* variant: the values are collected in the order the promises settle
promiseAll_completionOrder(c, inv) ==
  IF \E i \in DOMAIN inv : inv[i] = "rejected"
  THEN LET i == CHOOSE i \in DOMAIN inv : inv[i] = "rejected"
       IN  [c EXCEPT !.inv = inv, !.promise = "rejected",
                     !.error = ErrorOf(c.targets[i])]
  ELSE IF \A i \in DOMAIN inv : inv[i] = "fulfilled"
       THEN [c EXCEPT !.inv = inv, !.promise = "fulfilled",
                      !.value = [k \in 1..Len(c.done) |->
                                   Result(c.targets[c.done[k]], c.args)]]
       ELSE [c EXCEPT !.inv = inv]

\* Promise.all(promises) once the invocations are in states inv
promiseAll(c, inv) ==
  IF \E i \in DOMAIN inv : inv[i] = "rejected"
  THEN LET i == CHOOSE i \in DOMAIN inv : inv[i] = "rejected"
       IN  [c EXCEPT !.inv = inv, !.promise = "rejected",
                     !.error = ErrorOf(c.targets[i])]
  ELSE IF \A i \in DOMAIN inv : inv[i] = "fulfilled"
       THEN [c EXCEPT !.inv = inv, !.promise = "fulfilled",
                      !.value = AllResults(c.targets, c.args)]
       ELSE [c EXCEPT !.inv = inv]

\* a call that starts with resolveAll(type)
Started(kind, type, args, targets) ==
  [Idle EXCEPT !.kind = kind, !.type = type, !.args = args,
               !.targets = targets,
               !.inv = [i \in 1..Len(targets) |-> "unstarted"],
               !.promise = "pending"]

\* a call whose resolveAll(type) threw: the async function's promise is
\* rejected with that error
Failed(kind, type, args, error) ==
  [Idle EXCEPT !.kind = kind, !.type = type, !.args = args,
               !.promise = "rejected", !.error = error]

\* resolver.handleAllAsync(type, ...args) up to the return of Promise.all:
\* the map calls every handle in turn; each returns a promise (a returned
\* plain value is to Promise.all a promise fulfilled with it) or throws
\* (threw: index of the first that throws, 0 if none)
HandleAllAsync(type, args) ==
  /\ Ready
  /\ LET r == resolveAll(updaters, fallbackHandler, type)
         n == Len(r.targets)
     IN  IF r.error # NoError
         THEN call' = Failed("handleAllAsync", type, args, r.error)
         ELSE \E threw \in 0..n :
                LET started == IF threw = 0 THEN n ELSE threw - 1
                    c == Started("handleAllAsync", type, args, r.targets)
                    beh == [i \in 1..started |-> "pending"]
                IN    LET inv == [i \in 1..n |->
                                    IF i <= started THEN beh[i]
                                    ELSE IF i = threw THEN "threw"
                                    ELSE "unstarted"]
                          m == mapHandle(r.targets, args, threw)
                          d == [c EXCEPT !.log = m.log,
                                         !.trace =
                                           filterEvents(updaters, type)
                                             \o handleEvents(m.log)]
                      IN  call' = IF threw # 0
                                  THEN [d EXCEPT !.inv = inv,
                                                 !.promise = "rejected",
                                                 !.error = m.error]
                                  ELSE promiseAll(d, inv)
  /\ heap' = [heap EXCEPT ![updatersRef] = updatersAfterResolving(@)]
  /\ UNCHANGED << updatersRef, fallbackHandler, last >>

\* variant: Promise.allSettled, the call settles when every promise has
AsyncSettle_waitsForAll(i, outcome) ==
  /\ call.kind = "handleAllAsync"
  /\ i \in DOMAIN call.inv
  /\ call.inv[i] = "pending"
  /\ LET inv == [call.inv EXCEPT ![i] = outcome]
         c   == [call EXCEPT !.done = Append(@, i)]
     IN  call' = IF call.promise = "pending"
                     /\ \A j \in DOMAIN inv : inv[j] # "pending"
                 THEN promiseAll(c, inv)
                 ELSE [c EXCEPT !.inv = inv]
  /\ UNCHANGED << heap, updatersRef, fallbackHandler, last >>

\* the promise returned by the i-th handle of handleAllAsync settles
AsyncSettle(i, outcome) ==
  /\ call.kind = "handleAllAsync"
  /\ i \in DOMAIN call.inv
  /\ call.inv[i] = "pending"
  /\ LET inv == [call.inv EXCEPT ![i] = outcome]
         c   == [call EXCEPT !.done = Append(@, i)]
     IN  call' = IF call.promise = "pending"
                 THEN IF outcome = "rejected"
                      THEN [c EXCEPT !.inv = inv, !.promise = "rejected",
                                     !.error = ErrorOf(call.targets[i])]
                      ELSE promiseAll(c, inv)
                 ELSE [c EXCEPT !.inv = inv]
  /\ UNCHANGED << heap, updatersRef, fallbackHandler, last >>

\* variant: the loop takes its i-th target from the registry as it is now
seqInvoke_rereads(c, i, beh) ==
  LET now == resolveAll(updaters, fallbackHandler, c.type).targets
      t   == IF i <= Len(now) THEN now[i] ELSE c.targets[i]
      d   == [c EXCEPT !.log = Append(@, Invocation(t, c.args)),
                       !.trace = Append(@, HandleEvent(t)),
                       !.inv[i] = beh]
  IN  IF beh = "threw"
      THEN [d EXCEPT !.promise = "rejected", !.error = ErrorOf(t)]
      ELSE d

\* `await target.handle(...args)` for the i-th target of handleAllSequential:
\* handle returns a value, returns a promise, or throws
seqInvoke(c, i, beh) ==
  LET d == [c EXCEPT !.log = Append(@, Invocation(c.targets[i], c.args)),
                     !.trace = Append(@, HandleEvent(c.targets[i])),
                     !.inv[i] = beh]
  IN  IF beh = "threw"
      THEN [d EXCEPT !.promise = "rejected", !.error = ErrorOf(c.targets[i])]
      ELSE d

\* resolver.handleAllSequential(type, ...args) up to its first await
HandleAllSequential(type, args) ==
  /\ Ready
  /\ LET r == resolveAll(updaters, fallbackHandler, type)
         c == [Started("handleAllSequential", type, args, r.targets)
                 EXCEPT !.trace = filterEvents(updaters, type)]
     IN  IF r.error # NoError
         THEN call' = Failed("handleAllSequential", type, args, r.error)
         ELSE IF Len(r.targets) = 0
              THEN call' = [c EXCEPT !.promise = "fulfilled"]
              ELSE \E beh \in {"fulfilled", "pending", "threw"} :
                     call' = seqInvoke(c, 1, beh)
  /\ heap' = [heap EXCEPT ![updatersRef] = updatersAfterResolving(@)]
  /\ UNCHANGED << updatersRef, fallbackHandler, last >>

\* variant: the rejection is caught and does not reach the caller
SeqSettle_swallow(outcome) ==
  /\ call.kind = "handleAllSequential"
  /\ call.promise = "pending"
  /\ \E i \in DOMAIN call.inv :
       /\ call.inv[i] = "pending"
       /\ call' = [call EXCEPT !.inv[i] = outcome]
  /\ UNCHANGED << heap, updatersRef, fallbackHandler, last >>

\* variant: the failure hands the results pushed so far to the caller
SeqSettle_deliversPrefix(outcome) ==
  /\ call.kind = "handleAllSequential"
  /\ call.promise = "pending"
  /\ \E i \in DOMAIN call.inv :
       /\ call.inv[i] = "pending"
       /\ call' = IF outcome = "rejected"
                  THEN [call EXCEPT !.inv[i] = outcome,
                                    !.promise = "rejected",
                                    !.error = ErrorOf(call.targets[i]),
                                    !.value = call.results]
                  ELSE [call EXCEPT !.inv[i] = outcome]
  /\ UNCHANGED << heap, updatersRef, fallbackHandler, last >>

\* the promise the awaited handle returned settles
SeqSettle(outcome) ==
  /\ call.kind = "handleAllSequential"
  /\ call.promise = "pending"
  /\ \E i \in DOMAIN call.inv :
       /\ call.inv[i] = "pending"
       /\ call' = IF outcome = "rejected"
                  THEN [call EXCEPT !.inv[i] = outcome,
                                    !.promise = "rejected",
                                    !.error = ErrorOf(call.targets[i])]
                  ELSE [call EXCEPT !.inv[i] = outcome]
  /\ UNCHANGED << heap, updatersRef, fallbackHandler, last >>

\* variant: the loop does not await, it goes on while the promise is pending
SeqResume_noAwait ==
  /\ call.kind = "handleAllSequential"
  /\ call.promise = "pending"
  /\ LET cur == Len(call.log)
     IN  /\ cur = Len(call.results) + 1
         /\ call.inv[cur] \in {"fulfilled", "pending"}
         /\ LET c == [call EXCEPT !.results =
                        Append(@, Result(call.targets[cur], call.args))]
            IN  IF cur = Len(call.targets)
                THEN call' = [c EXCEPT !.promise = "fulfilled",
                                       !.value = c.results]
                ELSE \E beh \in {"fulfilled", "pending", "threw"} :
                       call' = seqInvoke(c, cur + 1, beh)
  /\ UNCHANGED << heap, updatersRef, fallbackHandler, last >>

\* handleAllSequential resumes after an await: results.push(result), then
\* the next iteration of the loop or `return results`
SeqResume ==
  /\ call.kind = "handleAllSequential"
  /\ call.promise = "pending"
  /\ LET cur == Len(call.log)
     IN  /\ cur = Len(call.results) + 1
         /\ call.inv[cur] = "fulfilled"
         /\ LET c == [call EXCEPT !.results =
                        Append(@, Result(call.targets[cur], call.args))]
            IN  IF cur = Len(call.targets)
                THEN call' = [c EXCEPT !.promise = "fulfilled",
                                       !.value = c.results]
                ELSE \E beh \in {"fulfilled", "pending", "threw"} :
                       call' = seqInvoke(c, cur + 1, beh)
  /\ UNCHANGED << heap, updatersRef, fallbackHandler, last >>

\* the caller has awaited the settled promise and drops it
Return ==
  /\ call.kind # "idle"
  /\ call.promise # "pending"
  /\ call' = Idle
  /\ UNCHANGED << heap, updatersRef, fallbackHandler, last >>

\* the registration calls; addUpdater and the caller's push may register a
\* handler that is registered already
Register ==
  \/ \E list \in Lists : Set(list)
  \/ \E args \in Lists : SetUpdaters(args)
  \/ \E h \in Handlers : AddUpdater(h)
  \/ \E f \in Fallbacks : SetFallbackHandler(f)
  \/ \E h \in Handlers : CallerPush(h)

\* the handlers that are not registered
Unregistered == Handlers \ { updaters[i] : i \in 1..Len(updaters) }

\* the registration calls that register no handler twice
RegisterOnce ==
  \/ \E list \in Lists : Set(list)
  \/ \E args \in Lists : SetUpdaters(args)
  \/ \E h \in Unregistered : AddUpdater(h)
  \/ \E f \in Fallbacks : SetFallbackHandler(f)
  \/ \E h \in Unregistered : CallerPush(h)

\* the synchronous resolution and execution calls
Sync ==
  \/ \E type \in Types : Resolve(type)
  \/ \E args \in ArgLists : Handle(args)
  \/ \E type \in Types : ResolveAll(type)
  \/ \E type \in Types, args \in ArgLists : HandleAll(type, args)

\* the asynchronous execution calls and their progress
Async ==
  \/ \E type \in Types, args \in ArgLists : HandleAllAsync(type, args)
  \/ \E i \in 1..MaxUpdaters, outcome \in {"fulfilled", "rejected"} :
       AsyncSettle(i, outcome)
  \/ \E type \in Types, args \in ArgLists : HandleAllSequential(type, args)
  \/ \E outcome \in {"fulfilled", "rejected"} : SeqSettle(outcome)
  \/ SeqResume
  \/ Return

Next ==
  \/ Continue
  \/ Register
  \/ Sync

\* the resolver used through its registration and synchronous calls, any
\* handler registered any number of times
Spec == Init /\ [][Next]_vars

NextAll ==
  \/ Continue
  \/ RegisterOnce
  \/ Sync
  \/ Async

\* registration and resolve with tokens of every sort
NextRender ==
  \/ Continue
  \/ RegisterOnce
  \/ \E t \in Tokens : ResolveToken(t)

\* the resolver used through its registration calls and resolve, every
\* handler registered at most once
SpecRender == Init /\ [][NextRender]_vars

\* registration, with fluent expressions of up to MaxChain calls that may
\* end in resolve or resolveAll
NextChain ==
  \/ Continue
  \/ Register
  \/ \E h \in Handlers : ThenAddUpdater(h)
  \/ \E f \in Fallbacks : ThenSetFallbackHandler(f)
  \/ \E type \in Types : ThenResolve(type)
  \/ \E type \in Types : ThenResolveAll(type)

\* the resolver used through its registration calls and fluent expressions,
\* any handler registered any number of times
SpecChain == Init /\ [][NextChain]_vars

\* the resolver used through all of its calls, one asynchronous call in
\* flight at a time, every handler registered at most once
SpecAll == Init /\ [][NextAll]_vars

\* registration by addUpdater and setFallbackHandler, and the asynchronous
\* calls
NextLive ==
  \/ Continue
  \/ \E h \in Unregistered : AddUpdater(h)
  \/ \E f \in Fallbacks : SetFallbackHandler(f)
  \/ Async

\* every promise a handle returned is settled at some time, and the job
\* queue runs the continuation of an await whose promise is fulfilled
Fairness ==
  /\ \A i \in 1..MaxUpdaters :
       WF_vars(\E outcome \in {"fulfilled", "rejected"} :
                 AsyncSettle(i, outcome))
  /\ WF_vars(\E outcome \in {"fulfilled", "rejected"} : SeqSettle(outcome))
  /\ WF_vars(SeqResume)

\* the asynchronous calls of the resolver, with handlers whose invocations
\* all complete
SpecLive == Init /\ [][NextLive]_vars /\ Fairness

\* the handler lists the caller passes to set and setUpdaters while a call
\* is suspended: none or one handler
ShortLists == { s \in Lists : Len(s) <= 1 }

\* the asynchronous calls, with one registration call made while a call is
\* suspended
NextMeanwhile ==
  \/ ContinueIdle
  \/ \E type \in Types : HandleAllAsync(type, "args1")
  \/ \E i \in 1..MaxUpdaters : AsyncSettle(i, "fulfilled")
  \/ \E type \in Types : HandleAllSequential(type, "args1")
  \/ \E outcome \in {"fulfilled", "rejected"} : SeqSettle(outcome)
  \/ SeqResume
  \/ Return
  \/ \E h \in Unregistered : MeanwhileAddUpdater(h)
  \/ \E f \in Fallbacks : MeanwhileSetFallbackHandler(f)
  \/ \E list \in ShortLists : MeanwhileSet(list)
  \/ \E args \in ShortLists : MeanwhileSetUpdaters(args)

\* the resolver registered to while one of its asynchronous calls is
\* suspended
SpecMeanwhile == Init /\ [][NextMeanwhile]_vars

\* resolve and resolveAll by a caller that keeps what they handed back,
\* changes the fallback and then invokes what it kept
NextHold ==
  \/ Continue
  \/ \E h \in Unregistered : AddUpdater(h)
  \/ \E f \in Fallbacks : SetFallbackHandler(f)
  \/ \E type \in Types : Resolve(type)
  \/ \E type \in Types : ResolveAll(type)
  \/ \E f \in Fallbacks : HoldingSetFallbackHandler(f)
  \/ \E args \in ArgLists : Handle(args)
  \/ \E args \in ArgLists : HandleFirst(args)

\* the resolver used by a caller that keeps resolved targets across changes
\* of the fallback
SpecHold == Init /\ [][NextHold]_vars

TypeOK ==
  /\ updatersRef \in {"own", "L"}
  /\ Len(heap["own"]) <= MaxUpdaters
  /\ Len(heap["L"]) <= MaxUpdaters
  /\ updatersRef = "own" => heap["L"] = << >>
  /\ fallbackHandler \in Fallbacks \cup {NoFallback}

(***************************************************************************)
(* Vocabulary of the properties                                            *)
(***************************************************************************)
\* the priority a handler counts with: its priority field, 0 when missing
EffectivePriority(h) ==
  IF HandlerDef[h].hasPriority THEN HandlerDef[h].priority ELSE 0

\* the positions of the registered sequence whose handler accepts the token
SupportingAt(type) ==
  { i \in 1..Len(updaters) : type \in HandlerDef[updaters[i]].supports }

\* the registered handlers that accept the token, in registration order
SupportingInOrder(type) ==
  LET Accepts(h) == type \in HandlerDef[h].supports
  IN  SelectSeq(updaters, Accepts)

\* the handlers of a sequence of resolved targets
RefsOf(targets) == [i \in 1..Len(targets) |-> targets[i].ref]

\* the handlers of a sequence that count with priority p, in their order
WithPriority(hs, p) ==
  LET Has(h) == EffectivePriority(h) = p
  IN  SelectSeq(hs, Has)

\* how many times handler h occurs in a sequence
Occurrences(hs, h) == Cardinality({ i \in 1..Len(hs) : hs[i] = h })

\* the synchronous call that has just handed back is one of ops, on a
\* non-empty registry, for a token some registered handler accepts
MatchedCall(ops) ==
  /\ last.op \in ops
  /\ updaters # << >>
  /\ SupportingAt(last.type) # {}

\* the same, for a token no registered handler accepts
UnmatchedCall(ops) ==
  /\ last.op \in ops
  /\ updaters # << >>
  /\ SupportingAt(last.type) = {}

(***************************************************************************)
(* C1: with an empty registered sequence resolve, resolveAll, handleAll,   *)
(* handleAllAsync and handleAllSequential all fail with UnassignedTarget,  *)
(* fallback or not, and invoke neither a handler nor the fallback.         *)
(***************************************************************************)
C1_EmptyRegistryFails ==
  updaters = << >> =>
    /\ last.op \in {"resolve", "resolveAll", "handleAll"} =>
         /\ last.status = "threw"
         /\ last.error = UnassignedTarget
         /\ last.target = NoTarget
         /\ last.targets = << >>
         /\ last.results = << >>
         /\ last.log = << >>
    /\ call.kind \in {"handleAllAsync", "handleAllSequential"} =>
         /\ call.promise = "rejected"
         /\ call.error = UnassignedTarget
         /\ call.log = << >>
         /\ call.value = << >>

\* resolveAll has failed on a registry emptied by set([]) although a
\* fallback is installed
C1_Witness ==
  /\ updaters = << >>
  /\ updatersRef = "L"
  /\ fallbackHandler # NoFallback
  /\ last.op = "resolveAll"
  /\ last.error = UnassignedTarget

(***************************************************************************)
(* C2: resolve returns the supporting handler of highest priority (missing *)
(* priority counts as 0), the earliest registered among equals.            *)
(***************************************************************************)
\* the position resolve must pick
BestAt(type) ==
  CHOOSE i \in SupportingAt(type) :
    \A j \in SupportingAt(type) :
      \/ EffectivePriority(updaters[i]) > EffectivePriority(updaters[j])
      \/ /\ EffectivePriority(updaters[i]) = EffectivePriority(updaters[j])
         /\ i <= j

C2_ResolveHighestPriority ==
  MatchedCall({"resolve"}) =>
    /\ last.status = "returned"
    /\ last.target = [kind |-> "handler", ref |-> updaters[BestAt(last.type)]]

\* resolve returned a handler that is not the first supporting one, and
\* that shares its priority with a supporting handler registered later
C2_Witness ==
  /\ MatchedCall({"resolve"})
  /\ last.status = "returned"
  /\ \E i \in SupportingAt(last.type) :
       /\ \A j \in SupportingAt(last.type) : i <= j
       /\ updaters[i] # last.target.ref
  /\ \E j \in SupportingAt(last.type) :
       /\ j > BestAt(last.type)
       /\ updaters[j] # last.target.ref
       /\ EffectivePriority(updaters[j]) = EffectivePriority(last.target.ref)

(***************************************************************************)
(* C3: resolveAll returns exactly the registered handlers that support the *)
(* token: all of them, nothing else, as many as there are supporting       *)
(* entries.                                                                *)
(***************************************************************************)
C3_ResolveAllExactlySupporting ==
  MatchedCall({"resolveAll"}) =>
    /\ last.status = "returned"
    /\ Len(last.targets) = Cardinality(SupportingAt(last.type))
    /\ \A i \in 1..Len(last.targets) :
         /\ last.targets[i].kind = "handler"
         /\ last.type \in HandlerDef[last.targets[i].ref].supports
    /\ \A h \in Handlers :
         Occurrences(RefsOf(last.targets), h) =
           Occurrences(SupportingInOrder(last.type), h)

\* resolveAll left out a registered handler that does not support the token
\* and returned a handler registered twice twice
C3_Witness ==
  /\ MatchedCall({"resolveAll"})
  /\ Len(last.targets) = 2
  /\ Len(updaters) = 3
  /\ last.targets[1] = last.targets[2]

(***************************************************************************)
(* C4: resolveAll returns the handlers by non-increasing priority, a       *)
(* handler without priority counting as 0: after the positive ones and     *)
(* before the negative ones, whatever the registration order.              *)
(***************************************************************************)
C4_ResolveAllByPriority ==
  (last.op = "resolveAll" /\ SupportingAt(last.type) # {}) =>
    \A i, j \in 1..Len(last.targets) :
      i < j => EffectivePriority(last.targets[i].ref)
                 >= EffectivePriority(last.targets[j].ref)

\* registered as negative, no priority, positive; returned in the reverse
C4_Witness ==
  /\ last.op = "resolveAll"
  /\ Len(updaters) = 3
  /\ Len(last.targets) = 3
  /\ HandlerDef[updaters[1]].hasPriority /\ HandlerDef[updaters[1]].priority < 0
  /\ ~HandlerDef[updaters[2]].hasPriority
  /\ HandlerDef[updaters[3]].hasPriority /\ HandlerDef[updaters[3]].priority > 0
  /\ RefsOf(last.targets) = << updaters[3], updaters[2], updaters[1] >>

(***************************************************************************)
(* C5: the priority order is stable: handlers of equal priority (or both   *)
(* without priority) that support the token keep their registration order  *)
(* in resolveAll and in the results of handleAll; when all matching        *)
(* handlers have equal priority the result is the registration order.      *)
(***************************************************************************)
\* the handlers in the order the call that has just handed back used them
OrderUsed ==
  IF last.op = "resolveAll" THEN RefsOf(last.targets)
  ELSE [i \in 1..Len(last.results) |-> last.results[i].by]

C5_StableOrder ==
  (MatchedCall({"resolveAll", "handleAll"}) /\ last.status = "returned") =>
    /\ \A h \in Handlers :
         WithPriority(OrderUsed, EffectivePriority(h)) =
           WithPriority(SupportingInOrder(last.type), EffectivePriority(h))
    /\ (\A i, j \in SupportingAt(last.type) :
          EffectivePriority(updaters[i]) = EffectivePriority(updaters[j]))
         => OrderUsed = SupportingInOrder(last.type)

\* handleAll returned the results of two different handlers without
\* priority in their registration order, after a handler registered later
C5_Witness ==
  /\ MatchedCall({"handleAll"})
  /\ last.status = "returned"
  /\ Len(last.results) = 3
  /\ last.results[1].by = updaters[3]
  /\ last.results[2].by = updaters[1]
  /\ last.results[3].by = updaters[2]
  /\ updaters[1] # updaters[2]
  /\ ~HandlerDef[updaters[1]].hasPriority
  /\ ~HandlerDef[updaters[2]].hasPriority

(***************************************************************************)
(* C6: on a non-empty registry, with no supporting handler and no          *)
(* fallback, resolve fails with UnsupportedType (not UnassignedTarget),    *)
(* returns no handler and leaves the registered sequence unchanged.        *)
(***************************************************************************)
C6_ResolveUnsupportedType ==
  [][ ( /\ last.op = "none"
        /\ last'.op = "resolve"
        /\ updaters # << >>
        /\ SupportingAt(last'.type) = {}
        /\ fallbackHandler = NoFallback )
      => ( /\ last'.status = "threw"
           /\ last'.error.kind = "UnsupportedType"
           /\ last'.error # UnassignedTarget
           /\ last'.target = NoTarget
           /\ heap' = heap
           /\ updatersRef' = updatersRef
           /\ fallbackHandler' = fallbackHandler ) ]_vars

\* resolve has failed with UnsupportedType on a registry of three handlers
C6_Witness ==
  /\ last.op = "resolve"
  /\ last.error.kind = "UnsupportedType"
  /\ Len(updaters) = 3
  /\ fallbackHandler = NoFallback

(***************************************************************************)
(* C7: resolveAll never fails with UnsupportedType: on a non-empty         *)
(* registry with no supporting handler and no fallback it returns the      *)
(* empty sequence, and handleAll, handleAllAsync and handleAllSequential   *)
(* return an empty result sequence without invoking any handler.           *)
(***************************************************************************)
C7_ResolveAllEmptyOnNoMatch ==
  /\ last.op \in {"resolveAll", "handleAll"} =>
       last.error.kind # "UnsupportedType"
  /\ call.error.kind # "UnsupportedType"
  /\ (updaters # << >> /\ fallbackHandler = NoFallback) =>
       /\ (last.op \in {"resolveAll", "handleAll"}
             /\ SupportingAt(last.type) = {}) =>
            /\ last.status = "returned"
            /\ last.targets = << >>
            /\ last.results = << >>
            /\ last.log = << >>
       /\ (call.kind \in {"handleAllAsync", "handleAllSequential"}
             /\ SupportingAt(call.type) = {}) =>
            /\ call.promise = "fulfilled"
            /\ call.value = << >>
            /\ call.log = << >>

\* handleAllSequential has completed with an empty result on a registry
\* whose handlers all reject the token
C7_Witness ==
  /\ call.kind = "handleAllSequential"
  /\ Len(updaters) = 2
  /\ fallbackHandler = NoFallback
  /\ SupportingAt(call.type) = {}
  /\ call.promise = "fulfilled"
  /\ call.value = << >>

(***************************************************************************)
(* C8: on a non-empty registry with no supporting handler and a fallback F *)
(* installed, resolve returns a handler-shaped value that supports every   *)
(* token and whose handle(...args) invokes F with the same arguments and   *)
(* returns F's result.                                                     *)
(***************************************************************************)
C8_ResolveFallbackWrapper ==
  (UnmatchedCall({"resolve", "handle"}) /\ fallbackHandler # NoFallback) =>
    /\ last.target.kind = "wrapper"
    /\ \A type \in Types : targetSupports(last.target, type)
    /\ last.op = "resolve" => last.status = "returned"
    /\ last.op = "handle" =>
         /\ Len(last.log) = 1
         /\ last.log[1].target.ref = fallbackHandler
         /\ last.log[1].args = last.args
         /\ last.status = "returned" =>
              last.results = << [by |-> fallbackHandler, args |-> last.args] >>
         /\ last.status = "threw" =>
              last.error = [kind |-> "HandlerError", by |-> fallbackHandler]

\* the handle of the value resolve returned has run the fallback G and
\* returned its result
C8_Witness ==
  /\ UnmatchedCall({"handle"})
  /\ fallbackHandler = "G"
  /\ last.status = "returned"
  /\ last.results = << [by |-> "G", args |-> "args2"] >>

(***************************************************************************)
(* C9: in the same situation resolveAll returns exactly one element, the   *)
(* wrapper of F, and handleAll(t, ...args) returns [F(...args)].           *)
(***************************************************************************)
C9_ResolveAllFallbackWrapper ==
  (UnmatchedCall({"resolveAll", "handleAll"})
     /\ fallbackHandler # NoFallback) =>
    /\ Len(last.targets) = 1
    /\ last.targets[1].kind = "wrapper"
    /\ last.targets[1].ref = fallbackHandler
    /\ \A type \in Types : targetSupports(last.targets[1], type)
    /\ last.op = "resolveAll" => last.status = "returned"
    /\ last.op = "handleAll" =>
         /\ Len(last.log) = 1
         /\ last.log[1].target.ref = fallbackHandler
         /\ last.log[1].args = last.args
         /\ last.status = "returned" =>
              last.results = << [by |-> fallbackHandler, args |-> last.args] >>

\* handleAll has returned the fallback's result alone
C9_Witness ==
  /\ UnmatchedCall({"handleAll"})
  /\ fallbackHandler = "F"
  /\ last.status = "returned"
  /\ last.results = << [by |-> "F", args |-> "args1"] >>

(***************************************************************************)
(* C10: the fallback is used only when no registered handler supports the  *)
(* token: otherwise resolve and every element of resolveAll are registered *)
(* handlers, and the three handleAll helpers never invoke the fallback.    *)
(***************************************************************************)
\* a registered handler that supports the token, not the fallback wrapper
RegisteredSupporter(target, type) ==
  /\ target.kind = "handler"
  /\ target.ref \notin Fallbacks
  /\ \E i \in SupportingAt(type) : updaters[i] = target.ref

C10_FallbackOnlyWhenNoMatch ==
  /\ MatchedCall({"resolve", "handle"}) =>
       /\ RegisteredSupporter(last.target, last.type)
       /\ \A i \in 1..Len(last.log) :
            RegisteredSupporter(last.log[i].target, last.type)
  /\ MatchedCall({"resolveAll", "handleAll"}) =>
       /\ \A i \in 1..Len(last.targets) :
            RegisteredSupporter(last.targets[i], last.type)
       /\ \A i \in 1..Len(last.log) :
            RegisteredSupporter(last.log[i].target, last.type)
  /\ ( /\ call.kind \in {"handleAllAsync", "handleAllSequential"}
       /\ updaters # << >>
       /\ SupportingAt(call.type) # {} ) =>
       /\ \A i \in 1..Len(call.targets) :
            RegisteredSupporter(call.targets[i], call.type)
       /\ \A i \in 1..Len(call.log) :
            RegisteredSupporter(call.log[i].target, call.type)

\* handleAllAsync has started the two supporting handlers of a registry
\* with a fallback installed, and nothing else
C10_Witness ==
  /\ call.kind = "handleAllAsync"
  /\ fallbackHandler # NoFallback
  /\ Cardinality(SupportingAt(call.type)) = 2
  /\ Len(call.log) = 2

(***************************************************************************)
(* C11: addUpdater(h) appends exactly h at the end of the registered       *)
(* sequence, leaves the earlier entries, their order and the fallback as   *)
(* they were, and returns the resolver; after a fluent expression the      *)
(* registered sequence ends with the handlers the expression added, in the *)
(* order it added them, and the fallback is the last one it installed: on  *)
(* an empty resolver addUpdater(H1).setFallbackHandler(F).addUpdater(H2)   *)
(* ends with [H1, H2] and F.                                               *)
(***************************************************************************)
\* the arguments of the calls of method op in a fluent expression
GivenTo(calls, op) ==
  LET IsOp(c) == c.op = op
      sel == SelectSeq(calls, IsOp)
  IN  [i \in 1..Len(sel) |-> sel[i].given]

\* the last n elements of a sequence
LastN(s, n) == SubSeq(s, Len(s) - n + 1, Len(s))

C11_AddUpdaterAppends ==
  [][ (last'.op = "addUpdater" /\ last' # last) =>
        LET h    == last'.calls[Len(last'.calls)].given
            adds == GivenTo(last'.calls, "addUpdater")
            fbs  == GivenTo(last'.calls, "setFallbackHandler")
        IN  /\ updaters' = updaters \o << h >>
            /\ fallbackHandler' = fallbackHandler
            /\ last'.returnsThis
            /\ Len(updaters') >= Len(adds)
            /\ LastN(updaters', Len(adds)) = adds
            /\ fbs # << >> => fallbackHandler' = fbs[Len(fbs)] ]_vars

\* addUpdater(A).setFallbackHandler(F).addUpdater(B) on an empty resolver
\* has ended with [A, B] and F
C11_Witness ==
  /\ last.op = "addUpdater"
  /\ last.calls = << Call("addUpdater", "A"),
                     Call("setFallbackHandler", "F"),
                     Call("addUpdater", "B") >>
  /\ updaters = << "A", "B" >>
  /\ fallbackHandler = "F"
  /\ last.returnsThis

(***************************************************************************)
(* C12: setFallbackHandler(F) makes F the fallback, replacing the one      *)
(* installed before, leaves the registered sequence unchanged and returns  *)
(* the resolver; no other call changes the fallback; and after a sequence  *)
(* of setFallbackHandler calls the fallback resolve and resolveAll use is  *)
(* the one installed last.                                                 *)
(***************************************************************************)
C12_SetFallbackReplaces ==
  [][ LET fbs == GivenTo(last'.calls, "setFallbackHandler")
      IN  /\ (last'.op = "setFallbackHandler" /\ last' # last) =>
                /\ fallbackHandler' = fbs[Len(fbs)]
                /\ heap' = heap
                /\ updatersRef' = updatersRef
                /\ last'.returnsThis
          /\ fallbackHandler' # fallbackHandler =>
                last'.op = "setFallbackHandler"
          /\ ( /\ last'.op \in {"resolve", "resolveAll"}
               /\ last' # last
               /\ fbs # << >>
               /\ updaters # << >>
               /\ SupportingAt(last'.type) = {} ) =>
                /\ last'.status = "returned"
                /\ last'.op = "resolve" =>
                     last'.target = [kind |-> "wrapper", ref |-> fbs[Len(fbs)]]
                /\ last'.op = "resolveAll" =>
                     last'.targets =
                       << [kind |-> "wrapper", ref |-> fbs[Len(fbs)]] >> ]_vars

\* setFallbackHandler(F).setFallbackHandler(G).resolve(z) has returned the
\* wrapper of G
C12_Witness ==
  /\ last.op = "resolve"
  /\ Len(last.calls) = 2
  /\ last.calls = << Call("setFallbackHandler", "F"),
                     Call("setFallbackHandler", "G") >>
  /\ updaters # << >>
  /\ last.target = [kind |-> "wrapper", ref |-> "G"]

(***************************************************************************)
(* C13: set(L) overwrites the whole registered sequence: right after it    *)
(* the registered sequence is exactly L, in L's order, and the fallback is *)
(* what it was; resolve and resolveAll return registered handlers only, so *)
(* none that set dropped; L may be empty, and resolve then fails with      *)
(* UnassignedTarget.                                                       *)
(***************************************************************************)
\* the handlers of a sequence, as a set
Elements(hs) == { hs[i] : i \in 1..Len(hs) }

C13_SetOverwrites ==
  [][ /\ (last'.op = "set" /\ last' # last) =>
           /\ updaters' = last'.calls[1].given
           /\ fallbackHandler' = fallbackHandler
      /\ (last'.op \in {"resolve", "resolveAll"} /\ last' # last) =>
           /\ updaters' = updaters
           /\ last'.target.kind = "handler" =>
                last'.target.ref \in Elements(updaters)
           /\ \A i \in 1..Len(last'.targets) :
                last'.targets[i].kind = "handler" =>
                  last'.targets[i].ref \in Elements(updaters)
           /\ (updaters = << >> /\ last'.op = "resolve") =>
                /\ last'.status = "threw"
                /\ last'.error = [kind |-> "UnassignedTarget",
                                  by |-> "resolver"] ]_vars

\* set has replaced the registered sequence by the empty list, with a
\* fallback installed
C13_Witness ==
  /\ last.op = "set"
  /\ last.calls[1].given = << >>
  /\ updaters = << >>
  /\ fallbackHandler # NoFallback

(***************************************************************************)
(* C14, as claimed: setUpdaters(...hs) adds hs to the end of the           *)
(* registered sequence S: afterwards the registered sequence is S followed *)
(* by hs.                                                                  *)
(***************************************************************************)
C14_Original_SetUpdatersAppends ==
  [][ (last'.op = "setUpdaters" /\ last' # last) =>
        updaters' = updaters \o last'.calls[1].given ]_vars

(***************************************************************************)
(* C14, amended: setUpdaters(...hs) replaces the registered sequence: the  *)
(* registered sequence becomes exactly hs, in the order given, in an array *)
(* of the resolver's own; the entries registered before are discarded, so  *)
(* resolveAll afterwards returns only handlers among the registered ones;  *)
(* the fallback is unchanged.                                              *)
(***************************************************************************)
C14_SetUpdatersReplaces ==
  [][ /\ (last'.op = "setUpdaters" /\ last' # last) =>
           /\ updaters' = last'.calls[1].given
           /\ updatersRef' = "own"
           /\ heap'["L"] = << >>
           /\ fallbackHandler' = fallbackHandler
      /\ (last'.op = "resolveAll" /\ last' # last
            /\ updaters # << >> /\ SupportingAt(last'.type) # {}) =>
           { last'.targets[i].ref : i \in 1..Len(last'.targets) } =
             { updaters[i] : i \in SupportingAt(last'.type) } ]_vars

\* setUpdaters has made its two arguments the registered sequence
C14_Witness ==
  /\ last.op = "setUpdaters"
  /\ Len(last.calls[1].given) = 2
  /\ updaters = last.calls[1].given
  /\ updatersRef = "own"

(***************************************************************************)
(* C15: handleAll(t, ...args) returns as many values as resolveAll(t) has  *)
(* elements, the i-th being what the i-th element's handle returned for    *)
(* exactly args; every element was invoked once, in the sorted order       *)
(* (priority, then registration), however the handlers were registered.    *)
(***************************************************************************)
\* position i comes before position j in the sorted order
Precedes(i, j) ==
  \/ EffectivePriority(updaters[i]) > EffectivePriority(updaters[j])
  \/ /\ EffectivePriority(updaters[i]) = EffectivePriority(updaters[j])
     /\ i < j

\* the supporting handlers in sorted order: the k-th is the one that k - 1
\* supporting positions come before
SortedSupporting(type) ==
  [k \in 1..Cardinality(SupportingAt(type)) |->
     updaters[CHOOSE i \in SupportingAt(type) :
                Cardinality({ j \in SupportingAt(type) : Precedes(j, i) })
                  = k - 1]]

\* what resolveAll hands back for the token: the supporting handlers in
\* sorted order, or the fallback wrapper alone, or nothing
ExpectedTargets(type) ==
  IF SupportingAt(type) # {}
  THEN [k \in 1..Cardinality(SupportingAt(type)) |->
          [kind |-> "handler", ref |-> SortedSupporting(type)[k]]]
  ELSE IF fallbackHandler # NoFallback
       THEN << [kind |-> "wrapper", ref |-> fallbackHandler] >>
       ELSE << >>

C15_HandleAllResults ==
  (last.op = "handleAll" /\ last.status = "returned") =>
    /\ updaters # << >>
    /\ last.targets = ExpectedTargets(last.type)
    /\ Len(last.results) = Len(last.targets)
    /\ \A i \in 1..Len(last.targets) :
         last.results[i] = [by |-> last.targets[i].ref, args |-> last.args]
    /\ Len(last.log) = Len(last.targets)
    /\ \A i \in 1..Len(last.targets) :
         last.log[i] = [target |-> last.targets[i], args |-> last.args]

\* handleAll has returned the results of three different handlers in an
\* order that is neither the registration order nor its reverse
C15_Witness ==
  /\ last.op = "handleAll"
  /\ last.status = "returned"
  /\ Len(last.results) = 3
  /\ last.results[1].by = updaters[2]
  /\ last.results[2].by = updaters[3]
  /\ last.results[3].by = updaters[1]
  /\ Cardinality({ updaters[1], updaters[2], updaters[3] }) = 3
  /\ last.args = "args2"

(***************************************************************************)
(* C16: when every invocation of handleAllAsync succeeds, the call         *)
(* delivers a result sequence indexed by the sorted order of resolveAll,   *)
(* not by the order of completion: its i-th element is the value of the    *)
(* i-th resolved handler, whatever the order the invocations completed in. *)
(***************************************************************************)
\* the value the i-th target of the asynchronous call produces
ValueOf(i) == [by |-> call.targets[i].ref, args |-> call.args]

C16_AsyncResultsBySortedOrder ==
  call.kind = "handleAllAsync" =>
    /\ call.promise = "fulfilled" =>
         /\ call.targets = ExpectedTargets(call.type)
         /\ Len(call.value) = Len(call.targets)
         /\ \A i \in 1..Len(call.targets) :
              /\ call.inv[i] = "fulfilled"
              /\ call.value[i] = ValueOf(i)
    /\ ( /\ call.error # [kind |-> "UnassignedTarget", by |-> "resolver"]
         /\ Len(call.inv) = Len(call.targets)
         /\ \A i \in 1..Len(call.targets) : call.inv[i] = "fulfilled" ) =>
         call.promise = "fulfilled"

\* three handlers completed in the order third, first, second, and the
\* result lists them first, second, third
C16_Witness ==
  /\ call.kind = "handleAllAsync"
  /\ call.promise = "fulfilled"
  /\ Len(call.targets) = 3
  /\ call.done = << 3, 1, 2 >>
  /\ call.value = << ValueOf(1), ValueOf(2), ValueOf(3) >>
  /\ EffectivePriority(call.targets[3].ref)
       < EffectivePriority(call.targets[1].ref)

(***************************************************************************)
(* C17: handleAllAsync starts the invocation of every handler of           *)
(* resolveAll, in sorted order, before it waits for any of them: whenever  *)
(* the call is in flight or over, every resolved handler has been started  *)
(* exactly once, also when an earlier handler failed.                      *)
(***************************************************************************)
\* resolveAll of the asynchronous call returned
AsyncResolved(kind) ==
  /\ call.kind = kind
  /\ call.error # [kind |-> "UnassignedTarget", by |-> "resolver"]

C17_AsyncStartsAll ==
  AsyncResolved("handleAllAsync") =>
    /\ Len(call.log) = Len(call.targets)
    /\ \A i \in 1..Len(call.targets) :
         /\ call.log[i] = [target |-> call.targets[i], args |-> call.args]
         /\ call.inv[i] # "unstarted"

(***************************************************************************)
(* C18: handleAllAsync fails as soon as one invocation fails, without      *)
(* waiting for the outstanding ones; the caller gets exactly one failure,  *)
(* the first that occurred, also when several handlers fail, and no result *)
(* sequence; the other invocations are not cancelled and go on to settle.  *)
(***************************************************************************)
\* the invocations of the asynchronous call that have failed
FailedAt == { i \in 1..Len(call.inv) : call.inv[i] \in {"threw", "rejected"} }

\* the invocation that failed first: the one that threw while the call was
\* starting the handlers, else the first rejection in order of settling
FirstFailedAt ==
  IF \E i \in FailedAt : call.inv[i] = "threw"
  THEN CHOOSE i \in FailedAt : call.inv[i] = "threw"
  ELSE call.done[CHOOSE k \in 1..Len(call.done) :
                   /\ call.done[k] \in FailedAt
                   /\ \A m \in 1..(k - 1) : call.done[m] \notin FailedAt]

C18_AsyncFailsFast ==
  AsyncResolved("handleAllAsync") =>
    /\ FailedAt # {} =>
         /\ call.promise = "rejected"
         /\ call.error = [kind |-> "HandlerError",
                          by |-> call.targets[FirstFailedAt].ref]
         /\ call.value = << >>
         /\ \A i \in 1..Len(call.inv) :
              call.inv[i] = "pending" =>
                /\ ENABLED AsyncSettle(i, "fulfilled")
                /\ ENABLED AsyncSettle(i, "rejected")
    /\ call.promise = "rejected" => FailedAt # {}

\* the second of three invocations was rejected first, the call failed with
\* its error, and the other two settled afterwards, one of them rejected
C18_Witness ==
  /\ call.kind = "handleAllAsync"
  /\ Len(call.targets) = 3
  /\ call.done = << 2, 1, 3 >>
  /\ call.inv = << "rejected", "rejected", "fulfilled" >>
  /\ call.promise = "rejected"
  /\ call.error = [kind |-> "HandlerError", by |-> call.targets[2].ref]

(***************************************************************************)
(* C19: handleAllSequential invokes the handlers of resolveAll one at a    *)
(* time in sorted order: a handler is started only when every handler      *)
(* before it has completed successfully, so at most one invocation is      *)
(* outstanding and nothing after it is started; on success the result      *)
(* lists the handlers' values in the same order.                           *)
(***************************************************************************)
C19_SequentialOneAtATime ==
  AsyncResolved("handleAllSequential") =>
    /\ Len(call.log) <= Len(call.targets)
    /\ \A i \in 1..Len(call.log) :
         /\ call.log[i] = [target |-> call.targets[i], args |-> call.args]
         /\ call.inv[i] # "unstarted"
         /\ i < Len(call.log) => call.inv[i] = "fulfilled"
    /\ \A i \in (Len(call.log) + 1)..Len(call.targets) :
         call.inv[i] = "unstarted"
    /\ Cardinality({ i \in 1..Len(call.inv) : call.inv[i] = "pending" }) <= 1
    /\ call.promise = "fulfilled" =>
         /\ call.targets = ExpectedTargets(call.type)
         /\ Len(call.log) = Len(call.targets)
         /\ call.value = [i \in 1..Len(call.targets) |-> ValueOf(i)]
         /\ \A i \in 1..Len(call.targets) : call.inv[i] = "fulfilled"

\* the second of three handlers is outstanding: the first has completed,
\* the third is not started
C19_Witness ==
  /\ call.kind = "handleAllSequential"
  /\ call.promise = "pending"
  /\ call.inv = << "fulfilled", "pending", "unstarted" >>
  /\ Len(call.log) = 2
  /\ Len(call.results) = 1

(***************************************************************************)
(* C20: when the k-th handler in sorted order fails in                     *)
(* handleAllSequential, the call fails with that handler's error, the      *)
(* handlers 1..k have each been invoked once and no handler after the k-th *)
(* is invoked, then or later.                                              *)
(***************************************************************************)
C20_SequentialStopsOnFailure ==
  [][ ( /\ call'.kind = "handleAllSequential"
        /\ call'.error # [kind |-> "UnassignedTarget", by |-> "resolver"]
        /\ \E k \in 1..Len(call'.inv) :
             call'.inv[k] \in {"threw", "rejected"} ) =>
      LET k == CHOOSE k \in 1..Len(call'.inv) :
                 call'.inv[k] \in {"threw", "rejected"}
      IN  /\ call'.promise = "rejected"
          /\ call'.error = [kind |-> "HandlerError",
                            by |-> call'.targets[k].ref]
          /\ call'.value = << >>
          /\ call'.log = [i \in 1..k |->
                            [target |-> call'.targets[i], args |-> call'.args]]
          /\ \A i \in 1..Len(call'.inv) :
               /\ i < k => call'.inv[i] = "fulfilled"
               /\ i > k => call'.inv[i] = "unstarted"
          /\ call.promise = "rejected" => call' = call ]_vars

\* with three handlers resolved the second failed: the log holds the first
\* two, the third was not started
C20_Witness ==
  /\ call.kind = "handleAllSequential"
  /\ Len(call.targets) = 3
  /\ call.inv = << "fulfilled", "rejected", "unstarted" >>
  /\ call.promise = "rejected"
  /\ Len(call.log) = 2
  /\ call.error = [kind |-> "HandlerError", by |-> call.targets[2].ref]

(***************************************************************************)
(* C21, as claimed: when handleAllSequential fails at the k-th handler the *)
(* failure delivered to the caller carries the results of handlers         *)
(* 1..k-1 in sorted order; on success the call delivers the full result    *)
(* sequence in sorted order.                                               *)
(***************************************************************************)
\* the values of the first n targets of the asynchronous call
ValuesUpTo(n) == [i \in 1..n |-> ValueOf(i)]

C21_Original_FailureCarriesPrefix ==
  AsyncResolved("handleAllSequential") =>
    /\ (call.promise = "rejected" /\ FailedAt # {}) =>
         LET k == CHOOSE k \in FailedAt : TRUE
         IN  call.value = ValuesUpTo(k - 1)
    /\ call.promise = "fulfilled" =>
         call.value = ValuesUpTo(Len(call.targets))

(***************************************************************************)
(* C21, amended: when handleAllSequential fails at the k-th handler the    *)
(* caller gets that handler's error and nothing else: the results of       *)
(* handlers 1..k-1 were collected inside the call and are not delivered;   *)
(* on success the call delivers the full result sequence in sorted order.  *)
(***************************************************************************)
C21_FailureCarriesNoResults ==
  AsyncResolved("handleAllSequential") =>
    /\ (call.promise = "rejected" /\ FailedAt # {}) =>
         LET k == CHOOSE k \in FailedAt : TRUE
         IN  /\ call.value = << >>
             /\ call.error = [kind |-> "HandlerError",
                              by |-> call.targets[k].ref]
             /\ call.results = ValuesUpTo(k - 1)
    /\ call.promise = "fulfilled" =>
         /\ call.value = ValuesUpTo(Len(call.targets))
         /\ call.targets = ExpectedTargets(call.type)

\* the third of three handlers was rejected: two results were collected and
\* the caller got the error alone
C21_Witness ==
  /\ call.kind = "handleAllSequential"
  /\ call.promise = "rejected"
  /\ call.inv = << "fulfilled", "fulfilled", "rejected" >>
  /\ Len(call.results) = 2
  /\ call.value = << >>

(***************************************************************************)
(* C22: the message of the UnsupportedType error of resolve(t) is          *)
(* 'Unsupported type: ' followed by a rendering of t: the JSON text of t   *)
(* when t is an object-shaped value other than null (an object or an       *)
(* array), the plain string form of t otherwise (string, number, boolean,  *)
(* null, undefined).                                                       *)
(***************************************************************************)
\* the JSON text of the object-shaped tokens, written out
JSONTextOf(t) ==
  CASE t = ArrayToken(<< >>) -> "[]"
    [] t = ArrayToken(<< NumberToken(1), NumberToken(2) >>) -> "[1,2]"
    [] t = ArrayToken(<< StringToken("a"), NullToken, UndefinedToken >>) ->
         "[\"a\",null,null]"
    [] t = ObjectToken(<< >>) -> "{}"
    [] t = ObjectToken(<< [key |-> "type", val |-> StringToken("z")],
                          [key |-> "amount", val |-> NumberToken(0)] >>) ->
         "{\"type\":\"z\",\"amount\":0}"
    [] t = ObjectToken(<< [key |-> "type", val |-> StringToken("x")] >>) ->
         "{\"type\":\"x\"}"
    [] OTHER -> "{\"id\":\"e\",\"data\":{\"amount\":10}}"

\* the plain string form of the other tokens, written out
PlainTextOf(t) ==
  CASE t = StringToken("z") -> "z"
    [] t = StringToken("x") -> "x"
    [] t = NumberToken(42) -> "42"
    [] t = NumberToken(0) -> "0"
    [] t = NumberToken(-7) -> "-7"
    [] t = BooleanToken(TRUE) -> "true"
    [] t = NullToken -> "null"
    [] OTHER -> "undefined"

C22_UnsupportedTypeMessage ==
  (last.op = "resolve" /\ last.error.kind = "UnsupportedType") =>
    /\ last.token \in Tokens
    /\ last.message =
         "Unsupported type: "
           \o (IF last.token.kind \in {"object", "array"}
               THEN JSONTextOf(last.token)
               ELSE PlainTextOf(last.token))

\* resolve of an object with two properties has failed with the object's
\* JSON text in the message
C22_Witness ==
  /\ last.op = "resolve"
  /\ last.error.kind = "UnsupportedType"
  /\ last.token.kind = "object"
  /\ Len(last.token.items) = 2
  /\ last.message = "Unsupported type: {\"type\":\"z\",\"amount\":0}"

(***************************************************************************)
(* C23: resolution and execution never change the registry.  Every step of *)
(* resolve, resolveAll, handleAll, handleAllAsync and handleAllSequential, *)
(* returning or failing, and every invocation of a resolved target, leaves *)
(* the registered sequence with the same handlers in the same registration *)
(* order and leaves the fallback as it was; the priority sort works on a   *)
(* copy.                                                                   *)
(***************************************************************************)
\* a step of a resolution or execution call
ResolutionStep ==
  \/ last' # last /\ last'.op \in {"resolve", "resolveAll", "handle", "handleAll"}
  \/ call' # call

C23_ResolutionKeepsRegistry ==
  [][ResolutionStep =>
       /\ updaters' = updaters
       /\ heap' = heap
       /\ updatersRef' = updatersRef
       /\ fallbackHandler' = fallbackHandler]_vars

\* handleAll has sorted two handlers into another order than the one they
\* were registered in, and the second to run has thrown
C23_Witness ==
  /\ last.op = "handleAll"
  /\ last.status = "threw"
  /\ Len(last.log) = 2
  /\ RefsOf(last.targets) # SupportingInOrder(last.type)
  /\ fallbackHandler # NoFallback

(***************************************************************************)
(* C24: the resolver is the sole owner of its registered sequence.  After  *)
(* set(L), a change the caller makes to its own list L does not change     *)
(* what resolve and resolveAll return, and addUpdater(h) on the resolver   *)
(* does not change the caller's list L.                                    *)
(***************************************************************************)
\* the caller has changed the list it passed to set
CallerChangesList == last' # last /\ last'.op = "callerPush"

\* the resolver has run addUpdater while the caller holds the list it passed
\* to set
AddUpdaterAfterSet ==
  last' # last /\ last'.op = "addUpdater" /\ updatersRef = "L"

C24_SoleOwner ==
  [][/\ CallerChangesList =>
          \A type \in Types :
            /\ resolve(updaters', fallbackHandler', type)
                 = resolve(updaters, fallbackHandler, type)
            /\ resolveAll(updaters', fallbackHandler', type)
                 = resolveAll(updaters, fallbackHandler, type)
     /\ AddUpdaterAfterSet => heap'["L"] = heap["L"]]_vars

(***************************************************************************)
(* C25: matching and sorting complete before any handler runs.  resolve    *)
(* and resolveAll call supports of the registered handlers and never a     *)
(* handle, of a handler or of the fallback wrapper; in handleAll,          *)
(* handleAllAsync and handleAllSequential every supports call of the call  *)
(* comes before its first handle call.                                     *)
(***************************************************************************)
\* the positions of a trace that hold a call of the given method
EventsOf(trace, ev) == { i \in DOMAIN trace : trace[i].ev = ev }

\* every supports call of the trace comes before every handle call
MatchingFirst(trace) ==
  \A i \in EventsOf(trace, "supports"), j \in EventsOf(trace, "handle") : i < j

C25_MatchingBeforeHandlers ==
  /\ last.op \in {"resolve", "resolveAll"} =>
       /\ EventsOf(last.trace, "handle") = {}
       /\ Cardinality(EventsOf(last.trace, "supports")) = Len(updaters)
  /\ last.op \in {"handle", "handleAll"} =>
       /\ MatchingFirst(last.trace)
       /\ Cardinality(EventsOf(last.trace, "handle")) = Len(last.log)
       /\ Cardinality(EventsOf(last.trace, "supports")) = Len(updaters)
  /\ call.kind # "idle" =>
       /\ MatchingFirst(call.trace)
       /\ Cardinality(EventsOf(call.trace, "handle")) = Len(call.log)
       /\ Cardinality(EventsOf(call.trace, "supports")) = Len(updaters)

\* handleAllSequential has asked three handlers, one of which does not
\* support the type, and is running the second of the two that do
C25_Witness ==
  /\ call.kind = "handleAllSequential"
  /\ Len(updaters) = 3
  /\ Len(call.targets) = 2
  /\ Len(call.log) = 2
  /\ Len(call.trace) = 5
  /\ call.promise = "pending"

(***************************************************************************)
(* C26: when every started handler invocation completes at some time, by   *)
(* success or by failure, every call of handleAllSequential and of         *)
(* handleAllAsync completes at some time, with a result sequence or with a *)
(* failure.  Conversely, while the invocation handleAllSequential awaits   *)
(* has not completed, the call is not completed and cannot go on: nothing  *)
(* but the completion of that invocation lets it proceed.                  *)
(***************************************************************************)
\* handleAllSequential awaits an invocation that has not completed
AwaitingHandler ==
  /\ call.kind = "handleAllSequential"
  /\ \E i \in DOMAIN call.inv : call.inv[i] = "pending"

C26_CallsComplete ==
  /\ (call.promise = "pending") ~> (call.promise \in {"fulfilled", "rejected"})
  /\ [](AwaitingHandler =>
          /\ call.promise = "pending"
          /\ ~ ENABLED SeqResume
          /\ ~ ENABLED Return)

\* handleAllSequential has completed with the results of two handlers, the
\* second of which returned a promise
C26_Witness ==
  /\ call.kind = "handleAllSequential"
  /\ call.promise = "fulfilled"
  /\ Len(call.value) = 2
  /\ Len(call.done) = 0
  /\ call.inv[2] = "fulfilled"

(***************************************************************************)
(* C27: in handleAll, when the k-th handler in sorted order throws, the    *)
(* caller gets that handler's own error, not wrapped and not translated;   *)
(* the handlers after the k-th are not invoked, no partial result sequence *)
(* is returned, and the registry is unchanged.                             *)
(***************************************************************************)
\* handleAll ends with the error of a handler
HandleAllThrows ==
  /\ last' # last
  /\ last'.op = "handleAll"
  /\ last'.error.kind = "HandlerError"

C27_HandleAllPropagates ==
  [][HandleAllThrows =>
       LET k == Len(last'.log)
       IN  /\ k \in 1..Len(last'.targets)
           /\ last'.status = "threw"
           /\ last'.error = [kind |-> "HandlerError",
                             by |-> last'.targets[k].ref]
           /\ \A i \in 1..k :
                last'.log[i] = [target |-> last'.targets[i],
                                args |-> last'.args]
           /\ last'.results = << >>
           /\ updaters' = updaters
           /\ heap' = heap
           /\ fallbackHandler' = fallbackHandler]_vars

\* the second of three handlers has thrown: two were invoked and the caller
\* has the error of the second
C27_Witness ==
  /\ last.op = "handleAll"
  /\ last.status = "threw"
  /\ Len(last.targets) = 3
  /\ Len(last.log) = 2
  /\ last.error = [kind |-> "HandlerError", by |-> last.targets[2].ref]
  /\ last.targets[2] # last.targets[3]
  /\ last.results = << >>

(***************************************************************************)
(* C28: resolve and resolveAll agree for every token when the registry is  *)
(* not empty.  resolve returns a target exactly when resolveAll returns a  *)
(* non-empty sequence, and that target is the first element of the         *)
(* sequence: the same registered handler, or a wrapper of the same         *)
(* fallback; resolve fails with UnsupportedType exactly when resolveAll    *)
(* returns the empty sequence.                                             *)
(***************************************************************************)
C28_ResolveAgreesWithResolveAll ==
  /\ (last.op = "resolve" /\ updaters # << >>) =>
       LET all == resolveAll(updaters, fallbackHandler, last.type)
       IN  /\ all.error = NoError
           /\ last.status = "returned" <=> all.targets # << >>
           /\ last.status = "returned" => last.target = all.targets[1]
           /\ last.error = [kind |-> "UnsupportedType", by |-> "resolver"]
                <=> all.targets = << >>
  /\ (last.op = "resolveAll" /\ updaters # << >>) =>
       LET one == resolve(updaters, fallbackHandler, last.type)
       IN  /\ last.status = "returned"
           /\ one.error = NoError <=> last.targets # << >>
           /\ one.error = NoError => one.target = last.targets[1]
           /\ one.error = [kind |-> "UnsupportedType", by |-> "resolver"]
                <=> last.targets = << >>

\* resolve has returned a handler that was not registered first, out of two
\* that resolveAll returns for the type
C28_Witness ==
  /\ last.op = "resolve"
  /\ last.status = "returned"
  /\ Len(updaters) >= 2
  /\ supports(updaters[1], last.type)
  /\ last.target # [kind |-> "handler", ref |-> updaters[1]]
  /\ Len(resolveAll(updaters, fallbackHandler, last.type).targets) = 2

(***************************************************************************)
(* C29: the handlers one call of handleAllSequential or handleAllAsync     *)
(* invokes, and their order, are fixed when the call starts.  A            *)
(* registration call (addUpdater, set, setUpdaters, setFallbackHandler)    *)
(* made while the call is suspended changes neither which handlers the     *)
(* call invokes nor their order: the call invokes the supporting handlers  *)
(* of the registry it was started on, by priority.                         *)
(***************************************************************************)
\* the registry the call in flight was started on: the handlers it asked
RegistryAtStart ==
  LET n == Cardinality(EventsOf(call.trace, "supports"))
  IN  [i \in 1..n |-> call.trace[i].target.ref]

\* the handlers of the start registry that support the type of the call
MatchingAtStart ==
  SelectSeq(RegistryAtStart, LAMBDA h : supports(h, call.type))

C29_TargetsFixedAtStart ==
  call.kind \in {"handleAllSequential", "handleAllAsync"} =>
    /\ MatchingFirst(call.trace)
    /\ MatchingAtStart # << >> =>
         call.targets = asTargets(sortByPriority(MatchingAtStart))
    /\ MatchingAtStart = << >> =>
         call.targets \in { << >> } \cup { << Wrapper(f) >> : f \in Fallbacks }
    /\ Len(call.log) <= Len(call.targets)
    /\ \A i \in 1..Len(call.log) :
         call.log[i] = [target |-> call.targets[i], args |-> call.args]
    /\ call.promise = "fulfilled" => Len(call.log) = Len(call.targets)

\* handleAllSequential has completed with two handlers of the registry it
\* was started on, which is no longer what resolveAll returns
C29_Witness ==
  /\ call.kind = "handleAllSequential"
  /\ call.promise = "fulfilled"
  /\ Len(call.log) = 2
  /\ updaters # RegistryAtStart
  /\ resolveAll(updaters, fallbackHandler, call.type).targets # call.targets
  /\ Len(resolveAll(updaters, fallbackHandler, call.type).targets) >= 2

(***************************************************************************)
(* C30: a fallback wrapper handed back by resolve or resolveAll is bound   *)
(* to the fallback installed when it was resolved.  setFallbackHandler(G)  *)
(* afterwards does not change the wrapper the caller holds, whose handle   *)
(* still runs the earlier fallback F; a resolve made after the change      *)
(* hands back a wrapper of G; and no wrapper is ever put into the          *)
(* registered sequence.                                                    *)
(***************************************************************************)
\* the target the caller holds after resolve, or the first after resolveAll
Held == IF last.op = "resolve" THEN last.target ELSE last.targets[1]

\* the caller invokes the wrapper it holds, and the wrapper returns
InvokesHeldWrapper ==
  /\ last.op \in {"resolve", "resolveAll"}
  /\ last'.op = "handle"
  /\ last'.status = "returned"
  /\ last'.target.kind = "wrapper"

C30_WrapperBoundAtResolution ==
  [][/\ (last.op = "none" /\ last'.op = "resolve"
            /\ last'.target.kind = "wrapper") =>
          last'.target = [kind |-> "wrapper", ref |-> fallbackHandler]
     /\ (last.op = "none" /\ last'.op = "resolveAll"
            /\ \E i \in DOMAIN last'.targets :
                 last'.targets[i].kind = "wrapper") =>
          last'.targets = << [kind |-> "wrapper", ref |-> fallbackHandler] >>
     /\ (fallbackHandler' # fallbackHandler
            /\ last.op \in {"resolve", "resolveAll"}) =>
          /\ last'.target = last.target
          /\ last'.targets = last.targets
     /\ InvokesHeldWrapper =>
          /\ last'.target = Held
          /\ last'.results = << [by |-> Held.ref, args |-> last'.args] >>
          /\ last'.log = << [target |-> Held, args |-> last'.args] >>
     /\ \A i \in 1..Len(updaters') : updaters'[i] \in Handlers]_vars

\* the wrapper resolved while F was the fallback has run F after the
\* fallback was changed to G
C30_Witness ==
  /\ last.op = "handle"
  /\ last.target = [kind |-> "wrapper", ref |-> "F"]
  /\ last.calls = << [op |-> "setFallbackHandler", given |-> "G"] >>
  /\ fallbackHandler = "G"
  /\ last.results = << [by |-> "F", args |-> last.args] >>

====
